---- MODULE Spec2Model ----
(***************************************************************************)
(* Model of the Jira protocol client of management-tools:                  *)
(*   management_tools/client/jira.py  (asynchronous Client)                *)
(* One caller drives one Client instance: it calls login(), logout() and   *)
(* request() directly, or opens the auth scope (async with client) and     *)
(* consumes a search() iteration inside it.  The remote server is the      *)
(* environment: every HTTP response is a nondeterministic input.           *)
(***************************************************************************)
EXTENDS Integers, Sequences, FiniteSets, TLC

(***************************************************************************)
(* Bounds of the model.                                                    *)
(***************************************************************************)
MaxTotal == 4       \* largest `total` the server reports for a query
MaxPage == 3        \* largest page size the server grants

(***************************************************************************)
(* Program constants.                                                      *)
(***************************************************************************)
MAX_TRIES == 5              \* Client.MAX_TRIES
DEFAULT_MAX_RESULTS == 1000 \* default of _search(max_results=...)

LOGIN == "auth/1/session"               \* Resource.LOGIN
SEARCH == "api/2/search"                \* Resource.SEARCH
WORKLOGS == "tempo-timesheets/3/worklogs" \* Resource.WORKLOGS

(***************************************************************************)
(* Python values.  None is a record so that it compares with JSON objects, *)
(* which are records keyed by strings.                                     *)
(***************************************************************************)
None == [py_none |-> TRUE]
IsNone(x) == x = None
Truthy(x) == ~IsNone(x)
Min(a, b) == IF a < b THEN a ELSE b

\* The verbs requests.Session provides as methods.
SessionMethods == {"get", "post", "put", "delete", "head", "options", "patch"}
\* The method names a caller passes; "purge" is not an attribute of Session.
Methods == {"get", "post", "delete", "purge"}

(***************************************************************************)
(* HTTP responses: no body, a body that is not JSON, or a JSON body.       *)
(***************************************************************************)
Empty == [content |-> FALSE]
Garbage == [content |-> TRUE, parses |-> FALSE]
Json(j) == [content |-> TRUE, parses |-> TRUE, json |-> j]

\* The exception slot of a call that raised nothing.
NoExc == "none"

\* Outcome of a call: a returned value or a raised exception.
Return(v) == [kind |-> "return", value |-> v]
Raise(e) == [kind |-> "raise", exc |-> e]

\* Faulty variant of request(): a body that does not parse is swallowed and
\* null is returned.
RequestSwallowsParseError(method, http) ==
  IF method \notin SessionMethods
  THEN [sent |-> FALSE, out |-> Raise("AttributeError")]
  ELSE IF ~http.content
  THEN [sent |-> TRUE, out |-> Return(None)]
  ELSE IF ~http.parses
  THEN [sent |-> TRUE, out |-> Return(None)]
  ELSE [sent |-> TRUE, out |-> Return(http.json)]

(***************************************************************************)
(* Client.request, lines 69-81: returns <<sent, outcome>>.  getattr falls  *)
(* back to a lambda returning None for a name the session lacks; the       *)
(* following response.status_code is then read from None.                  *)
(***************************************************************************)
Request(method, http) ==
  IF method \notin SessionMethods
  THEN [sent |-> FALSE, out |-> Raise("AttributeError")]
  ELSE IF ~http.content
  THEN [sent |-> TRUE, out |-> Return(None)]
  ELSE IF ~http.parses
  THEN [sent |-> TRUE, out |-> Raise("ValueError")]
  ELSE [sent |-> TRUE, out |-> Return(http.json)]

\* The requests as the server sees them.
LoginRequest == [method |-> "post", resource |-> LOGIN]
LogoutRequest == [method |-> "delete", resource |-> LOGIN]
SearchRequest(s, m) ==
  [method |-> "post", resource |-> SEARCH, startAt |-> s, maxResults |-> m]

(***************************************************************************)
(* Login responses the server may give.                                    *)
(***************************************************************************)
SessionValues == {"v1", "v2"}
ValidLogin == {Json([session |-> [name |-> "JSESSIONID", value |-> v]]) : v \in SessionValues}
PartialLogin ==
  { Json([session |-> [name |-> "JSESSIONID"]]),
    Json([session |-> [value |-> "v1"]]),
    Json([session |-> [loginInfo |-> "x"]]) }
NoSessionLogin == {Json([errorMessages |-> "unauthorized"])}
LoginHttp == ValidLogin \cup PartialLogin \cup NoSessionLogin \cup {Empty, Garbage}

\* A response whose body is a JSON object.
IsJson(http) == http.content /\ http.parses
\* A response that carries a valid session token: session name and value.
HasValidSession(http) ==
  /\ IsJson(http)
  /\ "session" \in DOMAIN http.json
  /\ {"name", "value"} \subseteq DOMAIN http.json.session
\* A response that is a JSON object with a 'session' object lacking name or value.
IsPartial(http) ==
  /\ IsJson(http)
  /\ "session" \in DOMAIN http.json
  /\ ~({"name", "value"} \subseteq DOMAIN http.json.session)
\* A response that is a JSON object without a 'session' key.
IsNoSession(http) == IsJson(http) /\ "session" \notin DOMAIN http.json
\* The (name, value) pair a valid response carries.
SessionOf(http) == <<http.json.session.name, http.json.session.value>>

(***************************************************************************)
(* Construction of the base URL, lines 43-50 of Client.__init__ and lines  *)
(* 42-49 of JiraConnector.__init__.  A URL is kept as its components.      *)
(***************************************************************************)
DefaultUrl == "https://jira.example.com"
Urls == {DefaultUrl, "http://jira.example.com/jira/", "jira.example.com", "https://[jira"}

\* urllib.parse.urlparse: a string without "//" has no netloc and is all
\* path; an unclosed "[" in the netloc raises ValueError.
UrlParse(url) ==
  CASE url = "https://jira.example.com" ->
         Return([scheme |-> "https", netloc |-> "jira.example.com", path |-> ""])
    [] url = "http://jira.example.com/jira/" ->
         Return([scheme |-> "http", netloc |-> "jira.example.com", path |-> "/jira/"])
    [] url = "jira.example.com" ->
         Return([scheme |-> "", netloc |-> "", path |-> "jira.example.com"])
    [] url = "https://[jira" -> Raise("ValueError")

\* urllib.parse.urljoin(base, ref) for a ref that is an absolute path: the
\* path of the base is replaced by ref.
UrlJoin(base, ref) == ref

\* urllib.parse.urlunparse((scheme, netloc, path, '', '', '')).
UrlUnparse(scheme, netloc, path) == [scheme |-> scheme, netloc |-> netloc, path |-> path]

\* The try block and its bare except.
BaseUrl(url) ==
  LET base_url_parsed == UrlParse(url) IN
  IF base_url_parsed.kind = "raise"
  THEN Raise("ImproperlyConfigured")
  ELSE Return(UrlUnparse("https", base_url_parsed.value.netloc,
                         UrlJoin(base_url_parsed.value.path, "/rest/")))

(***************************************************************************)
(* JiraClient.__init__ and JiraClient._get_config.  jira.conf is kept as   *)
(* the sections it has, the options of its connection section and the     *)
(* base_url it gives.                                                      *)
(***************************************************************************)
Sections == {"connection", "queries", "custom_fields"}
ConnectionOptions == {"username", "password", "base_url"}
ConfigFiles ==
  [sections : {Sections} \cup {Sections \ {x} : x \in Sections},
   options : {ConnectionOptions} \cup {ConnectionOptions \ {o} : o \in ConnectionOptions},
   base_url : {DefaultUrl, "jira.example.com"}]
\* The constructor's arguments: none given, or all three.
JiraClientArgs ==
  {[username |-> "", password |-> None, base_url |-> ""]}
    \cup {[username |-> "ann", password |-> [py_str |-> "secret"], base_url |-> u] :
            u \in {"http://jira.example.com/jira/", "https://[jira"}}

\* _get_config, lines 192-224.
GetConfig(file) ==
  IF "connection" \notin file.sections
  THEN Raise("ImproperlyConfigured")
  ELSE IF ~(ConnectionOptions \subseteq file.options)
  THEN Raise("ImproperlyConfigured")
  ELSE IF "queries" \notin file.sections
  THEN Raise("ImproperlyConfigured")
  ELSE LET config == [connection |-> [username |-> "conf", password |-> [py_str |-> "conf"],
                                      base_url |-> file.base_url],
                      queries |-> [sprint_tasks |-> "sprint = {sprint}"]]
       IN IF "custom_fields" \in file.sections
          THEN Return(config @@ [custom_fields |-> [story_points |-> "customfield_10002"]])
          ELSE Return(config)

\* __init__, lines 169-183: the connector's base URL, or the exception raised.
JiraClientInit(file, args) ==
  LET config == GetConfig(file) IN
  IF config.kind = "raise"
  THEN config
  ELSE LET url == IF args.username = "" \/ IsNone(args.password) \/ args.base_url = ""
                  THEN config.value.connection.base_url
                  ELSE args.base_url
           connector == BaseUrl(url)
       IN IF connector.kind = "raise"
          THEN connector
          ELSE IF "custom_fields" \notin DOMAIN config.value
          THEN Raise("KeyError")
          ELSE Return([base_url |-> connector.value, url |-> url])


VARIABLES
  token,      \* Client.token
  trace,      \* requests sent to the server by the current top-level call
  pc,         \* caller position: "idle", "login", "login_done", "body"
  caller,     \* who called login(): "direct" or "scope" (__aenter__)
  tries,      \* login(): local tries
  session,    \* login(): local session
  resps,      \* login(): HTTP responses received by the running call
  ret,        \* login(): outcome of the call once it has ended
  held,       \* a login() has succeeded since construction or the last logout()
  heldAtCall, \* value of held when the current top-level call began
  last,       \* the last completed top-level call and its outcome
  gen,        \* search(): "none", "created", "page" (in the for loop), "done", "raised"
  tasks,      \* search(): local tasks, the page being iterated
  total,      \* search(): local total
  start_at,   \* search(): local start_at
  max_results,\* search(): local max_results
  idx,        \* search(): position of the for loop in the page's issues
  gexc,       \* search(): the exception that ended the iteration, or NoExc
  logged,     \* search(): line 173 logged an invalid response
  awaiting,   \* the consumer has asked for the next issue and has not got it yet
  yielded,    \* the issues the consumer has received, in order
  pages,      \* the values search() got from _search(), in order
  srvTotal,   \* server: number of issues matching the query
  srvPage,    \* server: the page size it grants
  malformed,  \* server: some search response was not a well-formed page
  base_url,   \* Client._base_url, as (scheme, netloc, path)
  jira,       \* the JiraClient of the reports, None before one is constructed
  data,       \* JiraClient._get_tasks: local data
  sync_start_at \* JiraClient._get_tasks: local start_at

loginVars == <<caller, tries, session, resps, ret>>
searchVars == <<gen, tasks, total, start_at, max_results, idx, gexc, logged,
                awaiting, yielded, pages, srvTotal, srvPage, malformed>>
genVars == <<gen, tasks, total, start_at, max_results, idx, gexc, logged, awaiting, yielded,
             pages>>
restVars == <<base_url, jira, data, sync_start_at>>
vars == <<token, trace, pc, held, heldAtCall, last, loginVars, searchVars, restVars>>

NoCall == [op |-> "none"]

Init ==
  /\ token = None
  /\ trace = <<>>
  /\ pc = "idle"
  /\ caller = "direct"
  /\ tries = 0
  /\ session = None
  /\ resps = <<>>
  /\ ret = None
  /\ held = FALSE
  /\ heldAtCall = FALSE
  /\ last = NoCall
  /\ gen = "none"
  /\ tasks = None
  /\ total = 0
  /\ start_at = 0
  /\ max_results = 0
  /\ idx = 0
  /\ gexc = NoExc
  /\ logged = FALSE
  /\ awaiting = FALSE
  /\ yielded = <<>>
  /\ pages = <<>>
  /\ srvTotal = 0
  /\ srvPage = 0
  /\ malformed = FALSE
  /\ base_url = BaseUrl(DefaultUrl).value
  /\ jira = None
  /\ data = <<>>
  /\ sync_start_at = 0

(***************************************************************************)
(* Faulty variants of the login loop, used to show that the login          *)
(* properties depend on it: the budget test written with > instead of >=,  *)
(* the session pair built in the wrong order, and a missing 'session' key  *)
(* counted as a failed try instead of raised.                              *)
(***************************************************************************)
LoginTryLateBudget(out, t) ==
  IF out.kind = "raise"
  THEN [next |-> "raise", exc |-> out.exc, tries |-> t]
  ELSE IF IsNone(out.value)
  THEN [next |-> "raise", exc |-> "TypeError", tries |-> t]
  ELSE IF "session" \notin DOMAIN out.value
  THEN [next |-> "raise", exc |-> "LoginException", tries |-> t]
  ELSE IF {"name", "value"} \subseteq DOMAIN out.value.session
  THEN [next |-> "return", tries |-> t,
        session |-> <<out.value.session.name, out.value.session.value>>]
  ELSE IF t + 1 > MAX_TRIES
  THEN [next |-> "raise", exc |-> "LoginException", tries |-> t + 1]
  ELSE [next |-> "retry", tries |-> t + 1]

LoginTrySwappedPair(out, t) ==
  IF out.kind = "raise"
  THEN [next |-> "raise", exc |-> out.exc, tries |-> t]
  ELSE IF IsNone(out.value)
  THEN [next |-> "raise", exc |-> "TypeError", tries |-> t]
  ELSE IF "session" \notin DOMAIN out.value
  THEN [next |-> "raise", exc |-> "LoginException", tries |-> t]
  ELSE IF {"name", "value"} \subseteq DOMAIN out.value.session
  THEN [next |-> "return", tries |-> t,
        session |-> <<out.value.session.value, out.value.session.name>>]
  ELSE IF t + 1 >= MAX_TRIES
  THEN [next |-> "raise", exc |-> "LoginException", tries |-> t + 1]
  ELSE [next |-> "retry", tries |-> t + 1]

LoginTryNoSessionRetried(out, t) ==
  IF out.kind = "raise"
  THEN [next |-> "raise", exc |-> out.exc, tries |-> t]
  ELSE IF IsNone(out.value)
  THEN [next |-> "raise", exc |-> "TypeError", tries |-> t]
  ELSE IF "session" \in DOMAIN out.value
          /\ {"name", "value"} \subseteq DOMAIN out.value.session
  THEN [next |-> "return", tries |-> t,
        session |-> <<out.value.session.name, out.value.session.value>>]
  ELSE IF t + 1 >= MAX_TRIES
  THEN [next |-> "raise", exc |-> "LoginException", tries |-> t + 1]
  ELSE [next |-> "retry", tries |-> t + 1]

(***************************************************************************)
(* Client.login, lines 99-107: what one pass of the retry loop does with   *)
(* the outcome of its request, given the tries counted so far.             *)
(***************************************************************************)
LoginTry(out, t) ==
  IF out.kind = "raise"
  THEN [next |-> "raise", exc |-> out.exc, tries |-> t]
  ELSE IF IsNone(out.value)
  THEN [next |-> "raise", exc |-> "TypeError", tries |-> t]
  ELSE IF "session" \notin DOMAIN out.value
  THEN [next |-> "raise", exc |-> "LoginException", tries |-> t]
  ELSE IF {"name", "value"} \subseteq DOMAIN out.value.session
  THEN [next |-> "return", tries |-> t,
        session |-> <<out.value.session.name, out.value.session.value>>]
  ELSE IF t + 1 >= MAX_TRIES
  THEN [next |-> "raise", exc |-> "LoginException", tries |-> t + 1]
  ELSE [next |-> "retry", tries |-> t + 1]

\* Client.login, line 89: the guard of the whole body.
LoginNeeded(tok) == ~Truthy(tok)

\* Faulty variant of logout(): the DELETE is sent whether a token is held or not.
LogoutRunUnguarded(tok, http) ==
  LET r == Request("delete", http) IN
  [sent |-> r.sent,
   token |-> IF r.out.kind = "raise" THEN tok ELSE None,
   out |-> IF r.out.kind = "raise" THEN r.out ELSE Return(None)]

(***************************************************************************)
(* Client.logout, lines 115-117, on token tok when the server answers the  *)
(* DELETE with http.                                                       *)
(***************************************************************************)
LogoutRun(tok, http) ==
  IF Truthy(tok)
  THEN LET r == Request("delete", http) IN
       [sent |-> r.sent,
        token |-> IF r.out.kind = "raise" THEN tok ELSE None,
        out |-> IF r.out.kind = "raise" THEN r.out ELSE Return(None)]
  ELSE [sent |-> FALSE, token |-> tok, out |-> Return(None)]

LogoutHttp == {Empty, Garbage}

(***************************************************************************)
(* The worklogs endpoint: the records the server may return, and the       *)
(* arguments of worklogs().                                                *)
(***************************************************************************)
\* A Python list (a JSON array), kept apart from dicts and None.
List(seq) == [py_list |-> seq]

Worklog(a, i, t) == [author |-> a, issue |-> i, timeSpentSeconds |-> t]
WorklogLists ==
  { <<>>,
    <<Worklog("ann", "MT-1", 3600), Worklog("ann", "MT-2", 1800), Worklog("ann", "MT-1", 900)>>,
    <<Worklog("ann", "MT-2", 1800), Worklog("ann", "MT-1", 3600)>> }
GenericHttp == {Empty, Garbage} \cup {Json(List(l)) : l \in WorklogLists}

\* datetime values and an optional project key (a str, kept apart from None).
Datetimes ==
  { [year |-> 2018, month |-> 1, day |-> 31, hour |-> 9],
    [year |-> 2018, month |-> 2, day |-> 1, hour |-> 0] }
Usernames == {"ann"}
ProjectKeys == {None, [py_str |-> "MT"]}

\* strftime("%Y-%m-%d"): year, month and day; the time of day is dropped.
StrfDate(d) == <<d.year, d.month, d.day>>

\* Faulty variant of the parameters: projectKey is always sent.
WorklogParamsAlwaysKey(df, dt, user, pk) ==
  [dateFrom |-> StrfDate(df), dateTo |-> StrfDate(dt), username |-> user,
   projectKey |-> pk]

\* Client.worklogs, lines 186-193: the query parameters.
WorklogParams(df, dt, user, pk) ==
  LET params == [dateFrom |-> StrfDate(df), dateTo |-> StrfDate(dt), username |-> user]
  IN IF ~IsNone(pk) THEN params @@ [projectKey |-> pk] ELSE params

WorklogRequest(params) == [method |-> "get", resource |-> WORKLOGS, params |-> params]

\* Record of a completed top-level call: its outcome, the number of requests it
\* sent, and whether a login was held when it began.
Done(op, out, how, n, h) ==
  [op |-> op, out |-> out, sent |-> n, held |-> h, how |-> how]

(***************************************************************************)
(* login() is entered, by a direct call or by __aenter__ (line 198).       *)
(***************************************************************************)
LoginEnter(who) ==
  /\ pc = "idle"
  /\ caller' = who
  /\ trace' = <<>>
  /\ heldAtCall' = held
  /\ last' = NoCall
  /\ resps' = <<>>
  /\ tries' = 0
  /\ session' = None
  /\ IF LoginNeeded(token)
     THEN pc' = "login" /\ ret' = None
     ELSE pc' = "login_done" /\ ret' = Return(None)
  /\ UNCHANGED <<restVars, token, held, searchVars>>

CallLogin == LoginEnter("direct")

EnterScope == LoginEnter("scope")

\* One pass of the loop of lines 93-107: a POST and the handling of its answer.
LoginAttempt ==
  /\ pc = "login"
  /\ \E http \in LoginHttp :
       LET r == Request("post", http)
           o == LoginTry(r.out, tries)
       IN /\ trace' = IF r.sent THEN Append(trace, LoginRequest) ELSE trace
          /\ resps' = Append(resps, http)
          /\ tries' = o.tries
          /\ IF o.next = "retry"
             THEN pc' = "login" /\ UNCHANGED <<session, ret>>
             ELSE IF o.next = "return"
             THEN pc' = "login_done" /\ session' = o.session /\ ret' = Return(o.session)
             ELSE pc' = "login_done" /\ ret' = Raise(o.exc) /\ UNCHANGED session
  /\ UNCHANGED <<restVars, token, caller, held, heldAtCall, last, searchVars>>

\* Faulty variant of login(): the session of a successful login is stored.
TokenAfterLoginStored(tok, r) ==
  IF r.kind = "return" THEN [session |-> r.value] ELSE tok

\* Client.token once login() is over, lines 89-109: no statement of login()
\* assigns self.token, so it is what it was.
TokenAfterLogin(tok, r) == tok

\* login() hands its outcome to its caller and its frame is dropped.
LoginReturn ==
  /\ pc = "login_done"
  /\ token' = TokenAfterLogin(token, ret)
  /\ held' = (held \/ ret.kind = "return")
  /\ tries' = 0 /\ session' = None /\ resps' = <<>> /\ ret' = None
  /\ IF caller = "direct"
     THEN pc' = "idle" /\ last' = Done("login", ret, "call", Len(trace), heldAtCall)
     ELSE IF ret.kind = "return"
     THEN pc' = "body" /\ last' = last
     ELSE pc' = "idle" /\ last' = Done("scope", ret, "enter_failed", Len(trace), heldAtCall)
  /\ UNCHANGED <<restVars, trace, caller, heldAtCall, searchVars>>

\* A direct call of logout().
CallLogout ==
  /\ pc = "idle"
  /\ \E http \in LogoutHttp :
       LET r == LogoutRun(token, http) IN
       /\ trace' = IF r.sent THEN <<LogoutRequest>> ELSE <<>>
       /\ token' = r.token
       /\ last' = Done("logout", r.out, "call", IF r.sent THEN 1 ELSE 0, held)
  /\ held' = FALSE
  /\ heldAtCall' = held
  /\ UNCHANGED <<restVars, pc, loginVars, searchVars>>

\* A direct call of request() on the worklogs resource with some verb.
CallRequest ==
  /\ pc = "idle"
  /\ \E m \in Methods, http \in GenericHttp :
       LET r == Request(m, http) IN
       /\ trace' = IF r.sent THEN <<[method |-> m, resource |-> WORKLOGS]>> ELSE <<>>
       /\ last' = Done("request", r.out, m, IF r.sent THEN 1 ELSE 0, held)
                    @@ [http |-> http]
  /\ heldAtCall' = held
  /\ UNCHANGED <<restVars, token, pc, held, loginVars, searchVars>>

\* A call of worklogs(), lines 186-195: one GET with the query parameters.
CallWorklogs ==
  /\ pc = "idle"
  /\ \E df \in Datetimes, dt \in Datetimes, user \in Usernames, pk \in ProjectKeys,
        http \in GenericHttp :
       LET r == Request("get", http) IN
       /\ trace' = IF r.sent THEN <<WorklogRequest(WorklogParams(df, dt, user, pk))>>
                              ELSE <<>>
       /\ last' = Done("worklogs", r.out, "call", IF r.sent THEN 1 ELSE 0, held)
                    @@ [http |-> http, args |-> <<df, dt, user, pk>>]
  /\ heldAtCall' = held
  /\ UNCHANGED <<restVars, token, pc, held, loginVars, searchVars>>

\* Client(username, password, url), lines 30-53: a new client replaces the
\* current one unless the constructor raises.
NewClient ==
  /\ pc = "idle"
  /\ \E url \in Urls :
       LET r == BaseUrl(url) IN
       /\ IF r.kind = "return"
          THEN base_url' = r.value /\ token' = None /\ held' = FALSE
          ELSE UNCHANGED <<base_url, token, held>>
       /\ last' = Done("Client", IF r.kind = "return" THEN Return(None) ELSE r, "new", 0, held)
                    @@ [url |-> url]
  /\ trace' = <<>>
  /\ heldAtCall' = held
  /\ UNCHANGED <<pc, loginVars, searchVars, jira, data, sync_start_at>>

\* JiraClient(username, password, base_url), lines 161-183.
NewJiraClient ==
  /\ pc = "idle"
  /\ \E file \in ConfigFiles, args \in JiraClientArgs :
       LET r == JiraClientInit(file, args) IN
       /\ jira' = IF r.kind = "return" THEN [base_url |-> r.value.base_url] ELSE jira
       /\ last' = Done("JiraClient", IF r.kind = "return" THEN Return(None) ELSE r, "new", 0, held)
                    @@ [sections |-> file.sections, options |-> file.options,
                        url |-> IF args.base_url = "" THEN file.base_url ELSE args.base_url]
  /\ trace' = <<>>
  /\ heldAtCall' = held
  /\ UNCHANGED <<token, pc, held, loginVars, searchVars, base_url, data, sync_start_at>>

(***************************************************************************)
(* The search endpoint.  The server holds srvTotal issues, numbered from   *)
(* 0, for the query and grants pages of at most srvPage issues.            *)
(***************************************************************************)
PageKeys == {"total", "startAt", "maxResults", "issues"}

\* The issues with indices [s, min(s + m, t)).
IssuesFrom(s, m, t) ==
  LET hi == Min(s + m, t)
      n == IF hi > s THEN hi - s ELSE 0
  IN [i \in 1..n |-> s + i - 1]

\* The well-formed page answering a request for (s, m).
WellFormedPage(s, m) ==
  LET size == Min(m, srvPage) IN
  [total |-> srvTotal, startAt |-> s, maxResults |-> size,
   issues |-> IssuesFrom(s, size, srvTotal)]

\* A page with one key missing.
Without(page, k) == [x \in (DOMAIN page) \ {k} |-> page[x]]

SearchHttp(s, m) ==
  {Json(WellFormedPage(s, m)), Empty, Garbage}
    \cup {Json(Without(WellFormedPage(s, m), k)) : k \in PageKeys}

\* A page whose cursor values differ from those of the first page: the result
\* set has grown and the server reports another offset and page size.
DriftedPage(s, m) ==
  LET page == WellFormedPage(s, m) IN
  [page EXCEPT !.total = @ + 1, !.startAt = @ + 1, !.maxResults = @ + 1]

\* The answers to a request for a later page.  search() reads none of the
\* cursor keys of a later page, so one missing cursor key stands for all.
LaterHttp(s, m) ==
  {Json(WellFormedPage(s, m)), Json(DriftedPage(s, m)), Empty, Garbage}
    \cup {Json(Without(WellFormedPage(s, m), k)) : k \in {"total", "issues"}}

\* The transform function the caller passes to search().
Transform(issue) == [issue |-> issue, transformed |-> TRUE]

\* search(), line 167: tasks.get('issues', []).
IssuesOf(page) == IF "issues" \in DOMAIN page THEN page.issues ELSE <<>>

\* Faulty variants of the cursor advance: the same page is requested again;
\* the advance is the page size; the advance is one short of the page size.
NextStartAtSamePage(s, m) == s
NextStartAtNoSkip(s, m) == s + m
NextStartAtOverlap(s, m) == s + m - 1

\* search(), line 170: the offset of the next page.
NextStartAt(s, m) == s + m + 1

\* Faulty variant of the cursor read: the KeyError of a missing key is not
\* caught and reaches the consumer.
ReadCursorUncaught(out) ==
  IF out.kind = "raise"
  THEN [next |-> "raise", exc |-> out.exc]
  ELSE IF IsNone(out.value)
  THEN [next |-> "raise", exc |-> "TypeError"]
  ELSE IF ~({"total", "startAt", "maxResults"} \subseteq DOMAIN out.value)
  THEN [next |-> "raise", exc |-> "KeyError"]
  ELSE [next |-> "loop", total |-> out.value.total, start_at |-> out.value.startAt,
        max_results |-> out.value.maxResults]

(***************************************************************************)
(* search(), lines 162-164: reading the cursor from the first page.        *)
(***************************************************************************)
ReadCursor(out) ==
  IF out.kind = "raise"
  THEN [next |-> "raise", exc |-> out.exc]
  ELSE IF IsNone(out.value)
  THEN [next |-> "raise", exc |-> "TypeError"]
  ELSE IF ~({"total", "startAt", "maxResults"} \subseteq DOMAIN out.value)
  THEN [next |-> "keyerror"]
  ELSE [next |-> "loop", total |-> out.value.total, start_at |-> out.value.startAt,
        max_results |-> out.value.maxResults]

\* Faulty variant of the loop test: <= instead of <.
LoopHeadInclusive(s, t, page) ==
  IF ~(s <= t)
  THEN [next |-> "done"]
  ELSE IF IsNone(page)
  THEN [next |-> "raise", exc |-> "AttributeError"]
  ELSE [next |-> "page"]

(***************************************************************************)
(* search(), lines 166-167: the loop test and the start of the for loop    *)
(* over the page held in tasks.                                            *)
(***************************************************************************)
LoopHead(s, t, page) ==
  IF ~(s < t)
  THEN [next |-> "done"]
  ELSE IF IsNone(page)
  THEN [next |-> "raise", exc |-> "AttributeError"]
  ELSE [next |-> "page"]

\* The generator ends: by StopAsyncIteration (exc = NoExc) or by an exception.
GenEnds(exc) ==
  /\ gen' = (IF exc = NoExc THEN "done" ELSE "raised")
  /\ gexc' = exc
  /\ awaiting' = FALSE
  /\ idx' = 0

\* The body calls search(): an async generator is created, no code of it runs.
SearchCall ==
  /\ pc = "body"
  /\ gen = "none"
  /\ gen' = "created"
  /\ \E t \in 0..MaxTotal, m \in 0..MaxPage : srvTotal' = t /\ srvPage' = m
  /\ UNCHANGED <<restVars, token, trace, pc, held, heldAtCall, last, loginVars, tasks, total,
                 start_at, max_results, idx, gexc, logged, awaiting, yielded, pages,
                 malformed>>

\* The consumer asks the generator for the next issue.
ConsumerPull ==
  /\ pc = "body"
  /\ gen \in {"created", "page"}
  /\ ~awaiting
  /\ awaiting' = TRUE
  /\ UNCHANGED <<restVars, token, trace, pc, held, heldAtCall, last, loginVars, gen, tasks, total,
                 start_at, max_results, idx, gexc, logged, yielded, pages, srvTotal, srvPage,
                 malformed>>

\* search(), lines 159-166: the first request, the cursor, the first loop test.
SearchFirst ==
  /\ pc = "body"
  /\ gen = "created"
  /\ awaiting
  /\ \E http \in SearchHttp(0, DEFAULT_MAX_RESULTS) :
       LET r == Request("post", http)
           c == ReadCursor(r.out)
       IN /\ trace' = Append(trace, SearchRequest(0, DEFAULT_MAX_RESULTS))
          /\ malformed' = (http # Json(WellFormedPage(0, DEFAULT_MAX_RESULTS)))
          /\ tasks' = (IF r.out.kind = "return" THEN r.out.value ELSE tasks)
          /\ pages' = (IF r.out.kind = "return" THEN Append(pages, r.out.value) ELSE pages)
          /\ IF c.next = "raise"
             THEN /\ GenEnds(c.exc)
                  /\ UNCHANGED <<total, start_at, max_results, logged>>
             ELSE IF c.next = "keyerror"
             THEN /\ GenEnds(NoExc)
                  /\ logged' = TRUE
                  /\ UNCHANGED <<total, start_at, max_results>>
             ELSE /\ total' = c.total
                  /\ start_at' = c.start_at
                  /\ max_results' = c.max_results
                  /\ logged' = FALSE
                  /\ LET h == LoopHead(c.start_at, c.total, r.out.value) IN
                     IF h.next = "page"
                     THEN gen' = "page" /\ idx' = 1 /\ UNCHANGED <<gexc, awaiting>>
                     ELSE GenEnds(IF h.next = "raise" THEN h.exc ELSE NoExc)
  /\ UNCHANGED <<restVars, token, pc, held, heldAtCall, last, loginVars, yielded, srvTotal, srvPage>>

\* Faulty variant of the end of the for loop: the loop is left one issue early.
PageExhaustedEarly(i, page) == i >= Len(IssuesOf(page))

\* search(), line 167: the for loop has passed the last issue of the page.
PageExhausted(i, page) == i > Len(IssuesOf(page))

\* Faulty variant of the yield: the issue is handed over as it came.
YieldOfRaw(page, i) == [issue |-> IssuesOf(page)[i], transformed |-> FALSE]

\* search(), lines 167-168: what is yielded for the i-th issue of the page.
YieldOf(page, i) == Transform(IssuesOf(page)[i])

\* search(), line 168: the next issue of the page is transformed and yielded.
SearchYield ==
  /\ pc = "body"
  /\ gen = "page"
  /\ awaiting
  /\ ~PageExhausted(idx, tasks)
  /\ yielded' = Append(yielded, YieldOf(tasks, idx))
  /\ idx' = idx + 1
  /\ awaiting' = FALSE
  /\ UNCHANGED <<restVars, token, trace, pc, held, heldAtCall, last, loginVars, gen, tasks, total,
                 start_at, max_results, gexc, logged, pages, srvTotal, srvPage, malformed>>

\* Faulty variant: total and max_results are read again from every page.
CursorAfterReread(cur, page) ==
  IF {"total", "maxResults"} \subseteq DOMAIN page
  THEN [total |-> page.total, max_results |-> page.maxResults]
  ELSE cur

\* search(), lines 170-171: total and max_results once a later page has
\* arrived; neither is assigned after line 164.
CursorAfter(cur, page) == cur

\* search(), lines 170-171 and 166: the page is exhausted, the next one is
\* requested and the loop test runs again.
SearchNext ==
  /\ pc = "body"
  /\ gen = "page"
  /\ awaiting
  /\ PageExhausted(idx, tasks)
  /\ LET s == NextStartAt(start_at, max_results) IN
     \E http \in LaterHttp(s, max_results) :
       LET r == Request("post", http)
           cur == IF r.out.kind = "return"
                  THEN CursorAfter([total |-> total, max_results |-> max_results], r.out.value)
                  ELSE [total |-> total, max_results |-> max_results]
       IN
       /\ start_at' = s
       /\ total' = cur.total
       /\ max_results' = cur.max_results
       /\ trace' = Append(trace, SearchRequest(s, max_results))
       /\ malformed' = (malformed \/ http # Json(WellFormedPage(s, max_results)))
       /\ IF r.out.kind = "raise"
          THEN GenEnds(r.out.exc) /\ UNCHANGED <<tasks, pages>>
          ELSE /\ tasks' = r.out.value
               /\ pages' = Append(pages, r.out.value)
               /\ LET h == LoopHead(s, cur.total, r.out.value) IN
                  IF h.next = "page"
                  THEN gen' = "page" /\ idx' = 1 /\ UNCHANGED <<gexc, awaiting>>
                  ELSE GenEnds(IF h.next = "raise" THEN h.exc ELSE NoExc)
  /\ UNCHANGED <<restVars, token, pc, held, heldAtCall, last, loginVars, logged, yielded,
                 srvTotal, srvPage>>

\* The ways the body of the scope can be left in the current state: it ran to
\* its end, it raised (a fault of the body at any point, or the exception of
\* the iteration), or the consumer stopped iterating early.
Leaving ==
  (IF gen \in {"none", "done"} THEN {"normal"} ELSE {})
    \cup (IF gen \in {"created", "page"} /\ ~awaiting THEN {"early_stop"} ELSE {})
    \cup {"exception"}

\* The auth scope is left (__aexit__, line 202): logout() runs and the
\* generator, if any, is dropped.
ExitScope ==
  /\ pc = "body"
  /\ \E how \in Leaving, http \in LogoutHttp :
       LET r == LogoutRun(token, http) IN
       /\ trace' = IF r.sent THEN Append(trace, LogoutRequest) ELSE trace
       /\ token' = r.token
       /\ last' = Done("scope", r.out, how, Len(trace) + (IF r.sent THEN 1 ELSE 0), heldAtCall)
  /\ held' = FALSE
  /\ pc' = "idle"
  /\ gen' = "none" /\ tasks' = None /\ total' = 0 /\ start_at' = 0 /\ max_results' = 0
  /\ idx' = 0 /\ gexc' = NoExc /\ logged' = FALSE /\ awaiting' = FALSE /\ yielded' = <<>>
  /\ pages' = <<>>
  /\ srvTotal' = 0 /\ srvPage' = 0 /\ malformed' = FALSE
  /\ UNCHANGED <<restVars, loginVars, heldAtCall>>

(***************************************************************************)
(* The synchronous connector of the reports: JiraConnector and             *)
(* JiraClient._get_tasks.                                                  *)
(***************************************************************************)
GET_TASKS_MAX_RESULTS == 1000

\* The totals the server may hold for a report query: small ones, and ones
\* that take _get_tasks past its first page of 1000.
SyncTotals ==
  (0..MaxTotal) \cup {GET_TASKS_MAX_RESULTS, GET_TASKS_MAX_RESULTS + 1, GET_TASKS_MAX_RESULTS + 2}

\* JiraConnector._request, lines 68-73.
ConnectorRequest(method, http) ==
  IF method \notin SessionMethods
  THEN [sent |-> FALSE, out |-> Raise("AttributeError")]
  ELSE IF ~http.content
  THEN [sent |-> TRUE, out |-> Return(None)]
  ELSE IF ~http.parses
  THEN [sent |-> TRUE, out |-> Raise("ValueError")]
  ELSE [sent |-> TRUE, out |-> Return(http.json)]

\* JiraConnector.login, lines 81-91: one POST, no retry.
ConnectorLogin(http) ==
  LET response == ConnectorRequest("post", http).out IN
  IF response.kind = "raise"
  THEN response
  ELSE IF IsNone(response.value)
  THEN Raise("TypeError")
  ELSE IF "session" \notin DOMAIN response.value
  THEN Raise("LoginException")
  ELSE IF {"name", "value"} \subseteq DOMAIN response.value.session
  THEN Return(<<response.value.session.name, response.value.session.value>>)
  ELSE Raise("LoginException")

\* JiraConnector.logout, line 97, as run by __exit__: the DELETE is always sent.
ConnectorLogout(http) == ConnectorRequest("delete", http).out

\* The get_data function a report passes to _get_tasks.
GetData(issue) == [issue |-> issue, extracted |-> TRUE]

\* Faulty variant of the pass: the offset advances by max_results.
GetTasksPassNoSkip(s, out, d) ==
  IF out.kind = "raise"
  THEN [exc |-> out.exc]
  ELSE IF IsNone(out.value)
  THEN [exc |-> "TypeError"]
  ELSE IF "total" \notin DOMAIN out.value
  THEN [exc |-> "KeyError"]
  ELSE [exc |-> NoExc,
        end |-> s + GET_TASKS_MAX_RESULTS > out.value.total,
        start_at |-> s + GET_TASKS_MAX_RESULTS,
        data |-> IF "issues" \in DOMAIN out.value
                 THEN d \o [i \in 1..Len(out.value.issues) |-> GetData(out.value.issues[i])]
                 ELSE d]

\* One pass of the loop of _get_tasks, lines 242-246, on the outcome of
\* search_issues for offset s, with d the data gathered so far.
GetTasksPass(s, out, d) ==
  IF out.kind = "raise"
  THEN [exc |-> out.exc]
  ELSE IF IsNone(out.value)
  THEN [exc |-> "TypeError"]
  ELSE IF "total" \notin DOMAIN out.value
  THEN [exc |-> "KeyError"]
  ELSE [exc |-> NoExc,
        end |-> s + GET_TASKS_MAX_RESULTS > out.value.total,
        start_at |-> s + GET_TASKS_MAX_RESULTS + 1,
        data |-> IF "issues" \in DOMAIN out.value
                 THEN d \o [i \in 1..Len(out.value.issues) |-> GetData(out.value.issues[i])]
                 ELSE d]

\* The operations of JiraClient that open a scope on the connector.
SyncOps == {"get_tasks", "get_sprint_subtasks", "get_worklogs"}

\* The page sizes the server may grant to a report: capped ones, and the
\* requested one.
SyncPages == {0, MaxPage, GET_TASKS_MAX_RESULTS}

\* search_issues, line 99: the default max_results.
SEARCH_ISSUES_MAX_RESULTS == 1000

\* `with self._connector` at the start of op: __enter__ (line 154) logs in.
ConnectorEnter(op) ==
  /\ pc = "idle"
  /\ jira # None
  /\ \E http \in LoginHttp :
       LET r == ConnectorLogin(http) IN
       IF r.kind = "raise"
       THEN /\ pc' = "idle"
            /\ last' = Done(op, r, "enter_failed", 1, held)
                         @@ [http |-> http, exit |-> Empty]
            /\ UNCHANGED <<srvTotal, srvPage>>
       ELSE /\ pc' = op
            /\ last' = NoCall
            /\ IF op = "get_worklogs"
               THEN UNCHANGED <<srvTotal, srvPage>>
               ELSE \E t \in SyncTotals, m \in SyncPages : srvTotal' = t /\ srvPage' = m
  /\ trace' = <<LoginRequest>>
  /\ heldAtCall' = held
  /\ data' = <<>>
  /\ sync_start_at' = 0
  /\ UNCHANGED <<token, held, loginVars, genVars, malformed, base_url, jira>>

\* _get_tasks is called: `with self._connector` runs __enter__, which logs in.
GetTasksEnter == ConnectorEnter("get_tasks")

GetSprintSubtasksEnter == ConnectorEnter("get_sprint_subtasks")

GetWorklogsEnter == ConnectorEnter("get_worklogs")

\* Faulty variant of __exit__: no logout when the block raised.
ConnectorExitOnSuccess(exc) == IF exc = NoExc THEN <<LogoutRequest>> ELSE <<>>

\* __exit__, lines 156-157: the requests it sends when the block ended with
\* exception exc (NoExc when it ended normally).
ConnectorExit(exc) == <<LogoutRequest>>

\* The outcome of an operation whose block ended with block_out and whose
\* __exit__ got the answer bye to its DELETE, after is what the code past
\* the block makes of the block's value.
AfterExit(block_out, bye, after) ==
  IF ConnectorLogout(bye).kind = "raise"
  THEN ConnectorLogout(bye)
  ELSE IF block_out.kind = "raise" THEN block_out ELSE after

\* One pass of the loop; when it ends the loop or raises, __exit__ logs out
\* and _get_tasks returns data or lets the exception through.
GetTasksPage ==
  /\ pc = "get_tasks"
  /\ \E http \in SearchHttp(sync_start_at, GET_TASKS_MAX_RESULTS), bye \in LogoutHttp :
       LET tasks_out == ConnectorRequest("post", http).out
           pass == GetTasksPass(sync_start_at, tasks_out, data)
           over == pass.exc # NoExc \/ pass.end
           out == AfterExit(IF pass.exc # NoExc THEN Raise(pass.exc) ELSE Return(None), bye,
                            Return(List(pass.data)))
           request == SearchRequest(sync_start_at, GET_TASKS_MAX_RESULTS)
           sent == (trace \o <<request>>) \o ConnectorExit(pass.exc)
           wellformed ==
             ~malformed /\ http = Json(WellFormedPage(sync_start_at, GET_TASKS_MAX_RESULTS))
       IN IF over
          THEN /\ trace' = sent
               /\ pc' = "idle"
               /\ last' = Done("get_tasks", out, "page", Len(sent), held)
                            @@ [http |-> http, exit |-> bye,
                                server |-> [total |-> srvTotal, page |-> srvPage,
                                            wellformed |-> wellformed]]
               /\ data' = <<>>
               /\ sync_start_at' = 0
               /\ srvTotal' = 0 /\ srvPage' = 0 /\ malformed' = FALSE
          ELSE /\ trace' = Append(trace, request)
               /\ data' = pass.data
               /\ sync_start_at' = pass.start_at
               /\ malformed' = ~wellformed
               /\ UNCHANGED <<pc, last, srvTotal, srvPage>>
  /\ UNCHANGED <<token, held, heldAtCall, loginVars, genVars, base_url, jira>>

\* get_sprint_subtasks, line 288: the list built from the block's value.
Subtasks(found) ==
  IF IsNone(found)
  THEN Raise("TypeError")
  ELSE IF "issues" \notin DOMAIN found
  THEN Raise("KeyError")
  ELSE Return(List(found.issues))

\* get_sprint_subtasks, lines 285-288: one search inside the scope.
GetSprintSubtasks ==
  /\ pc = "get_sprint_subtasks"
  /\ \E http \in SearchHttp(0, SEARCH_ISSUES_MAX_RESULTS), bye \in LogoutHttp :
       LET tasks_out == ConnectorRequest("post", http).out
           exc == IF tasks_out.kind = "raise" THEN tasks_out.exc ELSE NoExc
           out == AfterExit(tasks_out, bye,
                            IF tasks_out.kind = "return" THEN Subtasks(tasks_out.value)
                            ELSE tasks_out)
           sent == (trace \o <<SearchRequest(0, SEARCH_ISSUES_MAX_RESULTS)>>) \o ConnectorExit(exc)
       IN /\ trace' = sent
          /\ last' = Done("get_sprint_subtasks", out, "data", Len(sent), held)
                       @@ [http |-> http, exit |-> bye]
  /\ pc' = "idle"
  /\ srvTotal' = 0 /\ srvPage' = 0
  /\ UNCHANGED <<token, held, heldAtCall, loginVars, genVars, malformed, restVars>>

\* JiraConnector.worklogs, lines 140-147: the query parameters.
ConnectorWorklogParams(df, dt, user, pk) ==
  LET params == [dateFrom |-> StrfDate(df), dateTo |-> StrfDate(dt), username |-> user]
  IN IF ~IsNone(pk) THEN params @@ [projectKey |-> pk] ELSE params

\* get_worklogs, lines 301-304: one worklogs query inside the scope.
GetWorklogs ==
  /\ pc = "get_worklogs"
  /\ \E df \in Datetimes, dt \in Datetimes, user \in Usernames, pk \in ProjectKeys,
        http \in GenericHttp, bye \in LogoutHttp :
       LET tasks_out == ConnectorRequest("get", http).out
           exc == IF tasks_out.kind = "raise" THEN tasks_out.exc ELSE NoExc
           out == AfterExit(tasks_out, bye, tasks_out)
           sent == (trace \o <<WorklogRequest(ConnectorWorklogParams(df, dt, user, pk))>>)
                     \o ConnectorExit(exc)
       IN /\ trace' = sent
          /\ last' = Done("get_worklogs", out, "data", Len(sent), held)
                       @@ [http |-> http, exit |-> bye]
  /\ pc' = "idle"
  /\ srvTotal' = 0 /\ srvPage' = 0
  /\ UNCHANGED <<token, held, heldAtCall, loginVars, genVars, malformed, restVars>>

Next ==
  \/ CallLogin
  \/ EnterScope
  \/ LoginAttempt
  \/ LoginReturn
  \/ CallLogout
  \/ CallRequest
  \/ CallWorklogs
  \/ NewClient
  \/ NewJiraClient
  \/ GetTasksEnter
  \/ GetTasksPage
  \/ GetSprintSubtasksEnter
  \/ GetSprintSubtasks
  \/ GetWorklogsEnter
  \/ GetWorklogs
  \/ SearchCall
  \/ ConsumerPull
  \/ SearchFirst
  \/ SearchYield
  \/ SearchNext
  \/ ExitScope

Spec == Init /\ [][Next]_vars

(***************************************************************************)
(* The same program when the consumer iterates to the end (async for) and  *)
(* the event loop keeps running the generator it awaits.                   *)
(***************************************************************************)
FairSpec ==
  /\ Spec
  /\ WF_vars(ConsumerPull)
  /\ WF_vars(SearchFirst)
  /\ WF_vars(SearchYield)
  /\ WF_vars(SearchNext)

(***************************************************************************)
(* Views of the state used by the properties.                              *)
(***************************************************************************)
IsSearch(r) == r.resource = SEARCH
\* The search requests of the current scope, in order.
SearchReqs == SelectSeq(trace, IsSearch)
InLogin == pc \in {"login", "login_done"}
AllResps(P(_)) == \A i \in 1..Len(resps) : P(resps[i])
NotValid(http) == ~HasValidSession(http)

(***************************************************************************)
(* C1.  Search completeness as claimed: a full iteration over well-formed  *)
(* pages whose size divides the total yields exactly total issues.         *)
(* The code steps by maxResults + 1 and loses the issue at each boundary.  *)
(***************************************************************************)
C1_SearchYieldsTotal ==
  (gen = "done" /\ ~malformed /\ srvPage >= 1 /\ srvTotal % srvPage = 0)
    => Len(yielded) = srvTotal

(***************************************************************************)
(* C2.  Scope release as claimed: once the scope entered by a successful   *)
(* login is left, the last request sent is the DELETE of auth/1/session.   *)
(* login() never stores the token, so logout() sends nothing.              *)
(***************************************************************************)
C2_ScopeExitLogsOut ==
  (last.op = "scope" /\ last.how \in {"normal", "exception", "early_stop"})
    => (Len(trace) > 0 /\ trace[Len(trace)] = LogoutRequest)

(***************************************************************************)
(* C3.  Token caching as claimed: a login() that succeeds while an         *)
(* earlier successful login is still held (no logout() since) sends no     *)
(* request.                                                                *)
(***************************************************************************)
C3_SecondLoginSendsNothing ==
  (last.op = "login" /\ last.held /\ last.out.kind = "return") => last.sent = 0

\* The retry budget of login() over the responses classed as Invalid.
RetryBudget(Invalid(_)) ==
  (InLogin /\ AllResps(Invalid)) =>
    /\ Len(trace) = Len(resps)
    /\ \A i \in 1..Len(trace) : trace[i] = LoginRequest
    /\ Len(resps) <= MAX_TRIES
    /\ Len(resps) < MAX_TRIES => pc = "login"
    /\ Len(resps) = MAX_TRIES => (pc = "login_done" /\ ret = Raise("LoginException"))

(***************************************************************************)
(* C4.  Retry budget as claimed: while no response of the running login()  *)
(* carried a valid session token, whatever its shape, login() keeps trying *)
(* until MAX_TRIES requests are sent and then fails with LoginException.   *)
(***************************************************************************)
C4_RetryBudgetAnyShape == RetryBudget(NotValid)

(***************************************************************************)
(* C4, amended.  The budget of MAX_TRIES requests holds when every         *)
(* response is a JSON object whose 'session' object lacks name or value:   *)
(* exactly MAX_TRIES requests, then LoginException, never a 6th request    *)
(* and no failure before the 5th.                                          *)
(***************************************************************************)
C4_RetryBudgetPartial == RetryBudget(IsPartial)

C4_Witness ==
  /\ pc = "login_done"
  /\ Len(resps) = MAX_TRIES
  /\ AllResps(IsPartial)
  /\ ret = Raise("LoginException")

\* Success of login() on the first valid response after Invalid ones.
NthAttempt(Invalid(_)) ==
  InLogin =>
    LET n == Len(resps) IN
    /\ (n < MAX_TRIES /\ AllResps(Invalid)) => pc = "login"
    /\ (n >= 1 /\ HasValidSession(resps[n])
          /\ \A i \in 1..(n - 1) : Invalid(resps[i]))
         => /\ n <= MAX_TRIES
            /\ pc = "login_done"
            /\ ret = Return(SessionOf(resps[n]))
            /\ Len(trace) = n
            /\ \A i \in 1..n : trace[i] = LoginRequest

(***************************************************************************)
(* C5.  Success on the Nth attempt as claimed: after N-1 responses without *)
(* a valid token, of any shape, login() is still trying, and a valid Nth   *)
(* response makes it return that (name, value) pair after N requests.      *)
(***************************************************************************)
C5_NthAttemptAnyShape == NthAttempt(NotValid)

(***************************************************************************)
(* C5, amended.  For 1 <= N <= MAX_TRIES: when the first N-1 responses are *)
(* JSON objects whose 'session' object lacks name or value and the Nth     *)
(* carries name and value, login() returns that pair after exactly N       *)
(* requests and sends no further one.                                      *)
(***************************************************************************)
C5_NthAttemptPartial == NthAttempt(IsPartial)

C5_Witness ==
  /\ pc = "login_done"
  /\ Len(resps) = MAX_TRIES
  /\ HasValidSession(resps[MAX_TRIES])
  /\ ret = Return(SessionOf(resps[MAX_TRIES]))

(***************************************************************************)
(* C6.  A login response that is a JSON object without a 'session' key     *)
(* ends login() with LoginException at that request: no retry follows.     *)
(***************************************************************************)
C6_NoSessionIsFatal ==
  (InLogin /\ Len(resps) >= 1 /\ IsNoSession(resps[Len(resps)]))
    => /\ pc = "login_done"
       /\ ret = Raise("LoginException")
       /\ Len(trace) = Len(resps)
       /\ (\A i \in 1..(Len(resps) - 1) : IsPartial(resps[i]))

C6_Witness ==
  /\ pc = "login_done"
  /\ Len(resps) = 1
  /\ IsNoSession(resps[1])
  /\ Len(trace) = 1
  /\ ret = Raise("LoginException")

(***************************************************************************)
(* C7.  logout() called while no login is held (none has succeeded since   *)
(* construction or the last logout) sends no request and leaves the        *)
(* client's token as it was.                                               *)
(***************************************************************************)
C7_LogoutWithoutTokenIsNoop ==
  [][(CallLogout /\ ~held) => (token' = token /\ trace' = <<>> /\ last'.sent = 0)]_vars

C7_Witness ==
  /\ last.op = "logout"
  /\ ~last.held
  /\ last.sent = 0
  /\ last.out = Return(None)

(***************************************************************************)
(* C8.  Log-and-stop as claimed: whenever the page held by the iteration   *)
(* lacks one of total, startAt, maxResults, issues, the iteration has      *)
(* ended at that page without an exception.                                *)
(***************************************************************************)
C8_AnyMalformedPageStops ==
  (gen # "none" /\ ~IsNone(tasks) /\ ~(PageKeys \subseteq DOMAIN tasks))
    => (gen = "done" /\ gexc = NoExc)

\* The keys search() reads from the first page.
CursorKeys == {"total", "startAt", "maxResults"}

(***************************************************************************)
(* C8, amended.  If the first page lacks total, startAt or maxResults, the *)
(* iteration ends at that page without raising, sends no further search    *)
(* request and has yielded nothing.  A page that lacks only issues, or a   *)
(* later page that lacks total, startAt or maxResults, does not end the    *)
(* iteration: it contributes the issues it has and paging goes on while    *)
(* the offset is below the first page's total.                             *)
(***************************************************************************)
C8_FirstPageCursorStops ==
  /\ (Len(SearchReqs) = 1 /\ ~IsNone(tasks) /\ ~(CursorKeys \subseteq DOMAIN tasks))
       => (gen = "done" /\ gexc = NoExc /\ logged /\ yielded = <<>>)
  /\ logged => (gen = "done" /\ gexc = NoExc /\ Len(SearchReqs) = 1 /\ yielded = <<>>)
  /\ (gen \in {"page", "done"} /\ ~logged /\ ~IsNone(tasks))
       => (gen = "page" <=> start_at < total)

C8_Witness ==
  /\ gen = "done"
  /\ logged
  /\ Len(SearchReqs) = 1
  /\ ~(CursorKeys \subseteq DOMAIN tasks)

C8_WitnessLater ==
  /\ gen = "page"
  /\ Len(SearchReqs) >= 2
  /\ ~(PageKeys \subseteq DOMAIN tasks)

(***************************************************************************)
(* C10.  Unsupported verb as claimed: request() with a method name the     *)
(* HTTP session does not provide sends nothing and returns null.           *)
(* The code reads status_code from the None the fallback returned.         *)
(***************************************************************************)
C10_UnsupportedVerbReturnsNull ==
  (last.op = "request" /\ last.how \notin SessionMethods)
    => (last.sent = 0 /\ last.out = Return(None))

\* The offset of the i-th search request, and the bound on the requests.
Offset(i) == SearchReqs[i].startAt

C9_Bounded ==
  gen # "none" =>
    /\ \A i \in 1..(Len(SearchReqs) - 1) : Offset(i) < Offset(i + 1)
    /\ \A i \in 1..(Len(SearchReqs) - 1) : Offset(i) < total
    /\ Len(SearchReqs) <= total + 1

(***************************************************************************)
(* C9.  search() terminates: the offsets of its successive requests grow   *)
(* strictly, no request follows one whose offset is >= total, so at most   *)
(* total + 1 requests are sent, and every iteration that is started ends   *)
(* (or is abandoned by its consumer).                                      *)
(***************************************************************************)
C9_SearchTerminates ==
  /\ []C9_Bounded
  /\ (gen = "created") ~> (gen \in {"done", "raised", "none"})

C9_Witness ==
  /\ gen = "done"
  /\ ~malformed
  /\ Len(SearchReqs) >= 3
  /\ Offset(Len(SearchReqs)) >= total
  /\ max_results = 0

(***************************************************************************)
(* C11.  request() with a supported verb returns null exactly when the     *)
(* response has no body, returns the decoded JSON when the body parses,    *)
(* and raises (never returns null) when a body does not parse as JSON.     *)
(***************************************************************************)
C11_RequestResult ==
  (last.op = "request" /\ last.how \in SessionMethods) =>
    /\ last.out = Return(None) <=> ~last.http.content
    /\ IsJson(last.http) => last.out = Return(last.http.json)
    /\ (last.http.content /\ ~last.http.parses) => last.out.kind = "raise"

C11_Witness ==
  /\ last.op = "request"
  /\ last.how \in SessionMethods
  /\ last.http = Garbage
  /\ last.out = Raise("ValueError")

(***************************************************************************)
(* C12.  Nothing below the login path retries: a request() with a          *)
(* supported verb and a worklogs() call each issue exactly one network     *)
(* call, whatever the response, and a search() requests every page offset  *)
(* at most once.                                                           *)
(***************************************************************************)
C12_NoRetryBelowLogin ==
  /\ (last.op = "request" /\ last.how \in SessionMethods) =>
       (last.sent = 1 /\ Len(trace) = 1)
  /\ last.op = "worklogs" => (last.sent = 1 /\ Len(trace) = 1)
  /\ gen # "none" =>
       \A i, j \in 1..Len(SearchReqs) : i # j => Offset(i) # Offset(j)

C12_Witness ==
  /\ gen = "raised"
  /\ Len(SearchReqs) >= 2
  /\ \E i \in 1..Len(trace) : IsSearch(trace[i]) /\ trace[i].startAt > 0

(***************************************************************************)
(* C13.  worklogs() issues exactly one GET to tempo-timesheets/3/worklogs  *)
(* whose parameters are dateFrom, dateTo and username, plus projectKey     *)
(* exactly when a project key was given, and returns the records of the    *)
(* response unchanged.                                                     *)
(***************************************************************************)
C13_WorklogsPassThrough ==
  last.op = "worklogs" =>
    LET df == last.args[1]
        dt == last.args[2]
        pk == last.args[4]
        given == pk # None
    IN /\ Len(trace) = 1
       /\ trace[1].method = "get"
       /\ trace[1].resource = "tempo-timesheets/3/worklogs"
       /\ DOMAIN trace[1].params =
            {"dateFrom", "dateTo", "username"} \cup (IF given THEN {"projectKey"} ELSE {})
       /\ trace[1].params.dateFrom = <<df.year, df.month, df.day>>
       /\ trace[1].params.dateTo = <<dt.year, dt.month, dt.day>>
       /\ trace[1].params.username = last.args[3]
       /\ given => trace[1].params.projectKey = pk
       /\ IsJson(last.http) => last.out = Return(last.http.json)

C13_Witness ==
  /\ last.op = "worklogs"
  /\ last.args[4] # None
  /\ IsJson(last.http)
  /\ Len(last.http.json.py_list) = 3
  /\ last.out = Return(last.http.json)

\* A search response that is empty or is a page lacking one of its keys.
EmptyOrLacking(http) ==
  \/ http = Empty
  \/ (IsJson(http) /\ ~(PageKeys \subseteq DOMAIN http.json))

(***************************************************************************)
(* C14.  Report outcomes, as claimed: a _get_tasks call that has logged in *)
(* and receives no unparsable body either returns the issues of the pages  *)
(* it fetched or aborts with an authentication or configuration error, and *)
(* a page response that is empty or lacks keys makes it return.            *)
(* The code reads tasks['total'] before its guard on tasks, so an empty    *)
(* page raises TypeError and a page without total raises KeyError.         *)
(***************************************************************************)
C14_ReportOutcomes ==
  (/\ last.op = "get_tasks"
   /\ last.how = "page"
   /\ last.http # Garbage
   /\ last.exit # Garbage) =>
    /\ \/ last.out.kind = "return"
       \/ last.out.exc \in {"LoginException", "ImproperlyConfigured"}
    /\ EmptyOrLacking(last.http) => last.out.kind = "return"

(***************************************************************************)
(* C15.  Configuration errors fail fast, as claimed: constructing a        *)
(* JiraClient from a configuration that lacks one of the sections          *)
(* connection, queries, custom_fields, or one of the connection options,   *)
(* raises ImproperlyConfigured and sends no request.                       *)
(* A configuration without custom_fields passes _get_config and raises     *)
(* KeyError in the constructor.                                            *)
(***************************************************************************)
C15_ConfigErrorsFailFast ==
  (/\ last.op = "JiraClient"
   /\ \/ ~(Sections \subseteq last.sections)
      \/ ("connection" \in last.sections /\ ~(ConnectionOptions \subseteq last.options)))
    => (last.out = Raise("ImproperlyConfigured") /\ last.sent = 0 /\ trace = <<>>)

(***************************************************************************)
(* C16.  Session token invariant: Client.token is non-null only while an   *)
(* auth scope is active; outside any scope, and after a logout() that      *)
(* returned, it is null.                                                   *)
(***************************************************************************)
C16_TokenOnlyInScope ==
  /\ token # None => pc = "body"
  /\ (last.op = "logout" /\ last.out.kind = "return") => token = None
  /\ (pc = "idle" /\ last.op = "scope") => token = None

C16_Witness ==
  /\ pc = "idle"
  /\ last.op = "logout"
  /\ last.held
  /\ last.out = Return(None)
  /\ token = None

\* A URL that parses and has no network location; a well-formed base URL.
NoNetloc(url) == UrlParse(url).kind = "return" /\ UrlParse(url).value.netloc = ""
WellFormedBase(b) == b.scheme = "https" /\ b.netloc # "" /\ b.path = "/rest/"

(***************************************************************************)
(* C17.  Base URL invariant, as claimed: the base URL of every constructed *)
(* Client and JiraConnector has scheme https, a non-empty netloc equal to  *)
(* that of the supplied URL, and path /rest/; a supplied URL without a     *)
(* network location is rejected with ImproperlyConfigured.                 *)
(* urlparse does not raise on such a URL, so "jira.example.com" is         *)
(* accepted and gives the base URL https:///rest/.                         *)
(***************************************************************************)
C17_BaseUrlInvariant ==
  /\ WellFormedBase(base_url)
  /\ jira # None => WellFormedBase(jira.base_url)
  /\ (last.op \in {"Client", "JiraClient"} /\ NoNetloc(last.url))
       => last.out = Raise("ImproperlyConfigured")
  /\ (last.op = "Client" /\ last.out.kind = "return")
       => base_url.netloc = UrlParse(last.url).value.netloc

(***************************************************************************)
(* C18.  Over well-formed pages reporting startAt 0, maxResults M and      *)
(* total T, the search requests carry startAt 0, M+1, 2(M+1), ... and the  *)
(* last one is the first offset that is at least T: one request when       *)
(* T = 0, and the offsets 0 then 2 when T = 2 and M = 1.                   *)
(***************************************************************************)
C18_RequestSequence ==
  (gen # "none" /\ ~malformed) =>
    LET n == Len(SearchReqs) IN
    /\ \A i \in 1..n : Offset(i) = (i - 1) * (srvPage + 1)
    /\ \A i \in 1..(n - 1) : Offset(i) < srvTotal
    /\ gen = "done" => (n >= 1 /\ Offset(n) >= srvTotal)
    /\ (gen = "done" /\ srvTotal = 0) => n = 1

C18_Witness ==
  /\ gen = "done"
  /\ ~malformed
  /\ srvTotal = 2
  /\ srvPage = 1
  /\ Len(SearchReqs) = 2
  /\ Offset(1) = 0
  /\ Offset(2) = 2

\* The issues of the result set a finished iteration never yielded, and the
\* issues that sit just before each page boundary.
NeverYielded == (0..(srvTotal - 1)) \ {yielded[i].issue : i \in 1..Len(yielded)}
BoundaryItems == {k \in 0..(srvTotal - 1) : (k + 1) % (srvPage + 1) = 0}

(***************************************************************************)
(* C19.  Skip pattern as claimed: a full iteration over well-formed pages  *)
(* never yields exactly the items at the page boundaries, and it skips     *)
(* nothing when maxResults divides total.                                  *)
(* The code skips the boundary items whether or not maxResults divides     *)
(* total: with total 2 and maxResults 1 issue 1 is never yielded.          *)
(***************************************************************************)
C19_SkipOnlyWhenNotDividing ==
  (gen = "done" /\ ~malformed /\ srvPage >= 1) =>
    /\ NeverYielded = BoundaryItems
    /\ srvTotal % srvPage = 0 => NeverYielded = {}

(***************************************************************************)
(* C20.  The iteration never repeats an issue: the yielded issues are      *)
(* pairwise distinct members of the result set, so at most total issues    *)
(* are yielded.                                                            *)
(***************************************************************************)
C20_NoIssueTwice ==
  gen # "none" =>
    /\ \A i, j \in 1..Len(yielded) : i # j => yielded[i].issue # yielded[j].issue
    /\ \A i \in 1..Len(yielded) : yielded[i].issue \in 0..(srvTotal - 1)
    /\ Len(yielded) <= srvTotal

C20_Witness ==
  /\ gen = "done"
  /\ Len(SearchReqs) >= 2
  /\ Len(yielded) >= 3
  /\ yielded[3].issue > yielded[2].issue

\* The issues of the first n pages received, in order, leaving out the pages
\* whose offset is not below total.
RECURSIVE IssuesUpTo(_)
IssuesUpTo(n) ==
  IF n = 0
  THEN <<>>
  ELSE IssuesUpTo(n - 1) \o (IF Offset(n) < total THEN IssuesOf(pages[n]) ELSE <<>>)

\* The issues the loop has passed: the pages before the current one and the
\* part of the current page already handed over.
IssuesPassed ==
  IF gen = "page"
  THEN IssuesUpTo(Len(pages) - 1) \o SubSeq(IssuesOf(pages[Len(pages)]), 1, idx - 1)
  ELSE IssuesUpTo(Len(pages))

(***************************************************************************)
(* C21.  search() applies transform to every yielded issue: the yielded    *)
(* sequence is transform mapped, in order, over the concatenated issues of *)
(* the pages whose offset is below total, each issue once and none         *)
(* untransformed.                                                          *)
(***************************************************************************)
C21_TransformOnEveryIssue ==
  gen # "none" =>
    /\ Len(yielded) = Len(IssuesPassed)
    /\ \A i \in 1..Len(yielded) :
         yielded[i] = [issue |-> IssuesPassed[i], transformed |-> TRUE]

C21_Witness ==
  /\ gen = "done"
  /\ Len(pages) = 3
  /\ Len(yielded) = 3
  /\ IssuesOf(pages[2]) # <<>>
  /\ yielded[3] = [issue |-> IssuesOf(pages[2])[1], transformed |-> TRUE]

\* The pages received of which the consumer has taken every issue.
ConsumedPages ==
  Cardinality({i \in 1..Len(pages) : Len(yielded) >= Len(IssuesUpTo(i))})

C22_Lazy ==
  gen # "none" =>
    /\ gen = "created" => Len(SearchReqs) = 0
    /\ Len(SearchReqs) <= ConsumedPages + 1
    /\ Len(SearchReqs) >= 2 => Len(yielded) >= Len(IssuesUpTo(Len(SearchReqs) - 1))

C22_OnDemand ==
  (pc = "body" /\ Len(SearchReqs') > Len(SearchReqs)) => (gen # "none" /\ awaiting)

(***************************************************************************)
(* C22.  search() is lazy: no search request is sent before the consumer   *)
(* first asks for an issue, the page at the next offset is requested only  *)
(* on the consumer's demand and after every issue of the current page has  *)
(* been taken, and the search requests sent never exceed the fully         *)
(* consumed pages plus one.                                                *)
(***************************************************************************)
C22_SearchIsLazy == []C22_Lazy /\ [][C22_OnDemand]_vars

C22_Witness ==
  /\ gen = "page"
  /\ idx = 1
  /\ Len(SearchReqs) = 2
  /\ Len(pages) = 2
  /\ Len(IssuesOf(pages[1])) >= 2
  /\ Len(yielded) = Len(IssuesOf(pages[1]))
  /\ ConsumedPages = 1

\* The first response of the search carries the three cursor values.
FirstPageHasCursor == Len(pages) >= 1 /\ CursorKeys \subseteq DOMAIN pages[1]

(***************************************************************************)
(* C24.  search() fixes its cursor from the first page: total and          *)
(* maxResults stay those of the first response, the offsets requested are  *)
(* startAt + k (maxResults + 1) of the first response, and the iteration   *)
(* stops at the first offset not below the first total, whatever values    *)
(* the later pages carry.                                                  *)
(***************************************************************************)
C24_CursorFromFirstPage ==
  (gen # "none" /\ FirstPageHasCursor) =>
    LET first == pages[1]
        n == Len(SearchReqs)
    IN /\ total = first.total
       /\ max_results = first.maxResults
       /\ \A i \in 1..n : Offset(i) = first.startAt + (i - 1) * (first.maxResults + 1)
       /\ \A i \in 1..(n - 1) : Offset(i) < first.total
       /\ gen = "done" => Offset(n) >= first.total

C24_Witness ==
  /\ gen = "done"
  /\ FirstPageHasCursor
  /\ Len(pages) = 3
  /\ CursorKeys \subseteq DOMAIN pages[2]
  /\ pages[2].total # pages[1].total
  /\ pages[2].maxResults # pages[1].maxResults
  /\ pages[2].startAt # Offset(2)
  /\ Len(yielded) = 3

\* A request for data: a search or a worklogs query.
IsDataRequest(r) == r.resource \in {SEARCH, WORKLOGS}

(***************************************************************************)
(* C23.  Scope ordering of the synchronous operations: the requests of a   *)
(* call are one login POST, then the data requests, then exactly one       *)
(* logout DELETE, which is sent also when a data request or the handling   *)
(* of its response raises; when the login fails nothing else is sent.      *)
(***************************************************************************)
C23_SyncScopeOrdering ==
  /\ pc \in SyncOps =>
       /\ Len(trace) >= 1
       /\ trace[1] = LoginRequest
       /\ \A i \in 2..Len(trace) : IsDataRequest(trace[i])
  /\ (last.op \in SyncOps /\ last.how = "enter_failed") => trace = <<LoginRequest>>
  /\ (last.op \in SyncOps /\ last.how # "enter_failed") =>
       /\ Len(trace) >= 3
       /\ trace[1] = LoginRequest
       /\ \A i \in 2..(Len(trace) - 1) : IsDataRequest(trace[i])
       /\ trace[Len(trace)] = LogoutRequest

C23_Witness ==
  /\ last.op = "get_tasks"
  /\ last.out = Raise("TypeError")
  /\ Len(trace) = 4
  /\ trace[4] = LogoutRequest

\* The page a server holding t issues and granting pages of at most cap
\* issues returns for a request (s, m).
ServerPage(s, m, t, cap) ==
  [total |-> t, startAt |-> s, maxResults |-> Min(m, cap),
   issues |-> IssuesFrom(s, Min(m, cap), t)]

\* The loop of search(), lines 166-171, run to its end against that server.
RECURSIVE SearchLoop(_, _, _, _, _, _, _)
SearchLoop(s, tot, m, page, t, cap, acc) ==
  IF LoopHead(s, tot, page).next # "page"
  THEN acc
  ELSE SearchLoop(NextStartAt(s, m), tot, m, ServerPage(NextStartAt(s, m), m, t, cap), t, cap,
                  acc \o [i \in 1..Len(IssuesOf(page)) |-> YieldOf(page, i)])

\* What a full iteration of search() yields against that server.
SearchAll(t, cap) ==
  LET first == ServerPage(0, DEFAULT_MAX_RESULTS, t, cap)
      c == ReadCursor(Return(first))
  IN SearchLoop(c.start_at, c.total, c.max_results, first, t, cap, <<>>)

\* The issues behind a sequence of transformed or extracted issues.
IssueKeys(seq) == [i \in 1..Len(seq) |-> seq[i].issue]

(***************************************************************************)
(* C25.  The two paginators agree: against a server that holds total       *)
(* issues, returns the issues [startAt, min(startAt + maxResults, total))  *)
(* and echoes the requested maxResults, the list _get_tasks returns holds  *)
(* the issues a full iteration of search() yields, in the same order.      *)
(* The iteration of search() computed here is the one the generator        *)
(* performs step by step.                                                  *)
(***************************************************************************)
C25_PaginatorsAgree ==
  /\ (/\ last.op = "get_tasks"
      /\ last.out.kind = "return"
      /\ last.server.wellformed
      /\ last.server.page = GET_TASKS_MAX_RESULTS)
       => IssueKeys(last.out.value.py_list)
            = IssueKeys(SearchAll(last.server.total, last.server.page))
  /\ (gen = "done" /\ ~malformed) => yielded = SearchAll(srvTotal, srvPage)

C25_Witness ==
  /\ last.op = "get_tasks"
  /\ last.out.kind = "return"
  /\ last.server.wellformed
  /\ last.server.page = GET_TASKS_MAX_RESULTS
  /\ last.server.total = GET_TASKS_MAX_RESULTS + 2
  /\ Len(last.out.value.py_list) = GET_TASKS_MAX_RESULTS + 1
  /\ Len(trace) = 4

====
